---------------------------- MODULE Spec2Model ----------------------------
(***************************************************************************)
(* Model of lib/zbc_scsi.c (libzbc): the SCSI command layer of a zoned     *)
(* block device library.  Every operation of zbc_scsi_ops is one action;   *)
(* the transport (zbc_sg_cmd_init / _exec / _destroy), the OS calls and    *)
(* the device replies are inputs chosen by the environment.                *)
(*                                                                         *)
(* Fixed-width C integers wider than 31 bits are kept as little-endian     *)
(* sequences of bytes (the host representation on the supported targets):  *)
(* a uint32_t is 4 digits, a uint64_t / size_t (LP64) is 8 digits, and all *)
(* arithmetic on them is done modulo 256^width.  A C int is a TLA+ integer *)
(* in -2^31 .. 2^31-1.                                                     *)
(***************************************************************************)
EXTENDS Integers, Sequences, FiniteSets, TLC

(***************************************************************************)
(* Fixed-width unsigned arithmetic on little-endian digit sequences.       *)
(***************************************************************************)
Pow256(i) == IF i = 0 THEN 1 ELSE IF i = 1 THEN 256 ELSE IF i = 2 THEN 65536 ELSE 16777216

\* the k-digit representation of a small natural number n (n < 2^31)
ToDigits(n, k) == [i \in 1..k |-> IF i > 4 THEN 0 ELSE (n \div Pow256(i - 1)) % 256]

U32(n) == ToDigits(n, 4)
U64(n) == ToDigits(n, 8)

\* zero-extension or truncation of a to k digits (an integer conversion)
Ext(a, k) == [i \in 1..k |-> IF i <= Len(a) THEN a[i] ELSE 0]

IsZero(a) == \A i \in 1..Len(a) : a[i] = 0

\* TRUE when a fits a non-negative C int (value < 2^31)
FitsInt(a) == /\ \A i \in 5..Len(a) : a[i] = 0
              /\ (Len(a) < 4 \/ a[4] < 128)

\* the value of a, for a with FitsInt(a)
FromDigits(a) == LET d(i) == IF i <= Len(a) THEN a[i] ELSE 0
                 IN  d(1) + 256 * d(2) + 65536 * d(3) + 16777216 * d(4)

\* conversion of a 32-bit pattern to a C int (two's complement)
ToInt32(a) == LET b == Ext(a, 4)
              IN  IF b[4] < 128 THEN FromDigits(b)
                  ELSE (FromDigits([b EXCEPT ![4] = b[4] - 128]) - 2147483647) - 1

\* conversion of a C int to a 32-bit pattern
OfInt32(n) == IF n >= 0 THEN U32(n)
              ELSE LET m == (n + 2147483647) + 1   \* n + 2^31, in 0 .. 2^31-1
                       d == U32(m)
                   IN  [d EXCEPT ![4] = d[4] + 128]

RECURSIVE AddFrom(_, _, _, _)
AddFrom(a, b, i, c) ==
    IF i > Len(a) THEN << >>
    ELSE LET s == a[i] + b[i] + c
         IN  << s % 256 >> \o AddFrom(a, b, i + 1, s \div 256)

\* a + b modulo 256^Len(a)
Add(a, b) == AddFrom(a, Ext(b, Len(a)), 1, 0)

RECURSIVE SubFrom(_, _, _, _)
SubFrom(a, b, i, c) ==
    IF i > Len(a) THEN << >>
    ELSE LET s == (a[i] - b[i]) - c
         IN  << (s + 256) % 256 >> \o SubFrom(a, b, i + 1, IF s < 0 THEN 1 ELSE 0)

\* a - b modulo 256^Len(a)
Sub(a, b) == SubFrom(a, Ext(b, Len(a)), 1, 0)

RECURSIVE MulSmallFrom(_, _, _, _)
MulSmallFrom(a, m, i, c) ==
    IF i > Len(a) THEN << >>
    ELSE LET s == a[i] * m + c
         IN  << s % 256 >> \o MulSmallFrom(a, m, i + 1, s \div 256)

\* a * m modulo 256^Len(a), for a small multiplier m (m <= 2^22)
MulSmall(a, m) == MulSmallFrom(a, m, 1, 0)

\* a shifted left by n digits, modulo 256^Len(a)
ShiftDigits(a, n) == [i \in 1..Len(a) |-> IF i <= n THEN 0 ELSE a[i - n]]

RECURSIVE MulFrom(_, _, _)
MulFrom(a, b, j) ==
    IF j > Len(b) THEN [i \in 1..Len(a) |-> 0]
    ELSE Add(ShiftDigits(MulSmall(a, b[j]), j - 1), MulFrom(a, b, j + 1))

\* a * b modulo 256^Len(a)
Mul(a, b) == MulFrom(a, b, 1)

RECURSIVE LessFrom(_, _, _)
LessFrom(a, b, i) ==
    IF i = 0 THEN FALSE
    ELSE IF a[i] # b[i] THEN a[i] < b[i]
    ELSE LessFrom(a, b, i - 1)

\* a < b as unsigned numbers (operands brought to a common width first)
Less(a, b) == LET k == IF Len(a) > Len(b) THEN Len(a) ELSE Len(b)
              IN  LessFrom(Ext(a, k), Ext(b, k), k)

Leq(a, b) == ~ Less(b, a)

\* the largest q in 0..255 with q * b <= r, found bit by bit
RECURSIVE QDigit(_, _, _, _)
QDigit(r, b, q, w) ==
    IF w = 0 THEN q
    ELSE IF Leq(MulSmall(Ext(b, Len(r)), q + w), r)
         THEN QDigit(r, b, q + w, w \div 2)
         ELSE QDigit(r, b, q, w \div 2)

\* long division of a by b (b # 0): the quotient digits from position i down
RECURSIVE DivFrom(_, _, _, _)
DivFrom(a, b, i, r) ==
    IF i = 0 THEN [i2 \in 1..Len(a) |-> 0]
    ELSE LET r1 == Add(ShiftDigits(r, 1), ToDigits(a[i], Len(r)))
             q  == QDigit(r1, b, 0, 128)
             r2 == Sub(r1, MulSmall(Ext(b, Len(r)), q))
         IN  [DivFrom(a, b, i - 1, r2) EXCEPT ![i] = q]


\* short division of a by a small divisor m (0 < m <= 2^22): the quotient
\* digits from position i down, r the running remainder
RECURSIVE DivSmallFrom(_, _, _, _)
DivSmallFrom(a, m, i, r) ==
    IF i = 0 THEN << >>
    ELSE LET t == r * 256 + a[i]
         IN  DivSmallFrom(a, m, i - 1, t % m) \o << t \div m >>

\* a / m (unsigned, truncating) with the width of a
DivSmall(a, m) == DivSmallFrom(a, m, Len(a), 0)

\* a / b (unsigned, truncating; b # 0) with the width of a: short division
\* when the divisor is small, long division otherwise
Div(a, b) ==
    IF FitsInt(b) /\ FromDigits(b) <= 4194304
    THEN DivSmall(a, FromDigits(b))
    ELSE DivFrom(a, b, Len(a), ToDigits(0, Len(a) + 1))

\* the smaller of two unsigned numbers
MinU(a, b) == IF Less(b, a) THEN b ELSE a

(***************************************************************************)
(* Program constants.                                                      *)
(***************************************************************************)
ENOENT == 2
EIO    == 5
ENXIO  == 6
ENOMEM == 12
EINVAL == 22
ENOSYS == 38

ZBC_SG_INQUIRY_CDB_OPCODE        == 18     \* 12h
ZBC_SG_INQUIRY_REPLY_LEN         == 96
ZBC_SG_READ_CAPACITY_CDB_OPCODE  == 158    \* 9Eh
ZBC_SG_READ_CAPACITY_CDB_SA      == 16     \* 10h
ZBC_SG_READ_CAPACITY_REPLY_LEN   == 32
ZBC_SG_READ_CDB_OPCODE           == 136    \* 88h
ZBC_SG_WRITE_CDB_OPCODE          == 138    \* 8Ah
ZBC_SG_SYNC_CACHE_CDB_OPCODE     == 145    \* 91h
ZBC_SG_REPORT_ZONES_CDB_OPCODE   == 158    \* 9Eh
ZBC_SG_REPORT_ZONES_CDB_SA       == 20     \* 14h
ZBC_SG_RESET_WRITE_POINTER_CDB_OPCODE == 159   \* 9Fh
ZBC_SG_RESET_WRITE_POINTER_CDB_SA     == 20    \* 14h
ZBC_SG_SET_ZONES_CDB_OPCODE           == 159   \* 9Fh
ZBC_SG_SET_ZONES_CDB_SA               == 21    \* 15h
ZBC_SG_SET_WRITE_POINTER_CDB_OPCODE   == 159   \* 9Fh
ZBC_SG_SET_WRITE_POINTER_CDB_SA       == 22    \* 16h
ZBC_ZONE_DESCRIPTOR_OFFSET       == 64
ZBC_ZONE_DESCRIPTOR_LENGTH       == 64
\* sysconf(_SC_PAGESIZE)
PageSize                         == 4096
ZBC_DEV_TYPE_HOST_AWARE          == 0
ZBC_DEV_TYPE_HOST_MANAGED        == 20     \* 14h

\* the bytes of the string "ATA"
ATA == << 65, 84, 65 >>

(***************************************************************************)
(* Byte order conversions of zbc_sg.h: the wire is big-endian ("MSB        *)
(* first"), the host value is a little-endian digit sequence.              *)
(***************************************************************************)
Reverse(s) == [i \in 1..Len(s) |-> s[Len(s) + 1 - i]]

\* the n wire bytes of value val, most significant first
zbc_sg_cmd_set_bytes(val, n) == Reverse(Ext(val, n))

\* the host value of the n wire bytes found at offset ofst of buf
zbc_sg_cmd_get_bytes(buf, ofst, n) == [i \in 1..n |-> buf[ofst + n - i]]

zbc_sg_cmd_get_int32(buf, ofst) == zbc_sg_cmd_get_bytes(buf, ofst, 4)
zbc_sg_cmd_get_int64(buf, ofst) == zbc_sg_cmd_get_bytes(buf, ofst, 8)

\* cdb with the n wire bytes of val stored at offset ofst
SetCdb(cdb, ofst, val, n) ==
    LET w == zbc_sg_cmd_set_bytes(val, n)
    IN  [i \in DOMAIN cdb |-> IF i >= ofst /\ i < ofst + n THEN w[i - ofst + 1] ELSE cdb[i]]

zbc_sg_cmd_set_int32(cdb, ofst, val) == SetCdb(cdb, ofst, val, 4)
zbc_sg_cmd_set_int64(cdb, ofst, val) == SetCdb(cdb, ofst, val, 8)

(***************************************************************************)
(* The command transport (zbc_sg.c), at its interface.                     *)
(***************************************************************************)
NullBuf == [id |-> "NULL", owned |-> FALSE]

\* a command after a successful zbc_sg_cmd_init: a zeroed 16-byte CDB, the
\* caller's buffer, or a buffer of its own when none is given
zbc_sg_cmd_init(code, buf, bufsz) ==
    [code            |-> code,
     cdb             |-> [i \in 0..15 |-> 0],
     out_buf         |-> IF buf.id # "NULL" THEN buf
                         ELSE IF IsZero(bufsz) THEN NullBuf
                         ELSE [id |-> code, owned |-> TRUE],
     out_bufsz       |-> bufsz,
     dxfer_direction |-> "SG_DXFER_FROM_DEV"]

\* the events of zbc_sg_cmd_destroy: the command is torn down and the buffer
\* it still owns is freed (a "free" event names the buffer and who frees it)
zbc_sg_cmd_destroy(cmd) ==
    << << "destroy", cmd.code >> >> \o
    (IF cmd.out_buf.id # "NULL" /\ cmd.out_buf.owned
        THEN << << "free", cmd.out_buf.id, "destroy" >> >> ELSE << >>)

\* the record of a command handed to zbc_sg_cmd_exec
ExecEvent(cmd) ==
    << "exec", cmd.code, cmd.cdb, cmd.out_bufsz, cmd.dxfer_direction >>

(***************************************************************************)
(* zbc_scsi_inquiry                                                        *)
(***************************************************************************)
\* InquiryResult without cmd.out_buf = NULL: the command keeps the buffer
InquiryResultKeepsBuf(cmd, reply) ==
    [dev_type |-> reply[0] % 32,
     pbuf     |-> cmd.out_buf,
     cmd      |-> cmd]

\* lines 73-82: what a successful exchange hands over to the caller
InquiryResult(cmd, reply) ==
    [dev_type |-> reply[0] % 32,
     pbuf     |-> cmd.out_buf,
     cmd      |-> [cmd EXCEPT !.out_buf = NullBuf]]

zbc_scsi_inquiry(env) ==
    IF env.inq_init # 0
    THEN [ret |-> env.inq_init, events |-> << << "init_failed", "INQUIRY" >> >>,
          pbuf |-> NullBuf, dev_type |-> -1]
    ELSE LET cmd0 == zbc_sg_cmd_init("INQUIRY", NullBuf, U64(ZBC_SG_INQUIRY_REPLY_LEN))
             cmd1 == [cmd0 EXCEPT !.cdb = [@ EXCEPT ![0] = ZBC_SG_INQUIRY_CDB_OPCODE,
                                                    ![4] = ZBC_SG_INQUIRY_REPLY_LEN]]
             ret  == env.inq_exec
             res  == InquiryResult(cmd1, env.inq_reply)
             cmd2 == IF ret = 0 THEN res.cmd ELSE cmd1
         IN  [ret      |-> ret,
              events   |-> << << "init", "INQUIRY" >>, ExecEvent(cmd1) >>
                           \o zbc_sg_cmd_destroy(cmd2),
              pbuf     |-> IF ret = 0 THEN res.pbuf ELSE NullBuf,
              dev_type |-> IF ret = 0 THEN res.dev_type ELSE -1]

(***************************************************************************)
(* zbc_scsi_get_info                                                       *)
(***************************************************************************)
\* IsATA reading the vendor field one byte too far
IsATAOffByOne(reply) == << reply[9], reply[10], reply[11] >> = ATA

\* line 110: strncmp((char *) (buf + 8), "ATA", 3) == 0
IsATA(reply) == << reply[8], reply[9], reply[10] >> = ATA

\* Classify letting a host-aware device through
ClassifyHostAwareAccepted(dev_type) ==
    IF dev_type = ZBC_DEV_TYPE_HOST_MANAGED \/ dev_type = ZBC_DEV_TYPE_HOST_AWARE THEN 0
    ELSE -ENXIO

\* lines 122-138: 0 to proceed, or the error of an unsupported device type
Classify(dev_type) ==
    IF dev_type = ZBC_DEV_TYPE_HOST_MANAGED THEN 0
    ELSE IF dev_type = ZBC_DEV_TYPE_HOST_AWARE THEN -ENOSYS
    ELSE -ENXIO

\* line 160: 1 << cmd.out_buf[13] & 0x0f, which C parses as (1 << byte) & 0x0f.
\* A shift count of 32 or more is undefined: a build either uses the count
\* modulo 32 (env.ub = "x86") or yields 0.
LogicalPerPhysical(b13, ub) ==
    LET n == IF b13 >= 32 /\ ub = "x86" THEN b13 % 32 ELSE b13
    IN  IF n < 4 THEN 2 ^ n ELSE 0

\* lines 158-178: the geometry decoded from a READ CAPACITY reply, with the
\* checks of lines 163 and 170
Geometry(reply, ub) ==
    LET lblocks == Add(zbc_sg_cmd_get_int64(reply, 0), U64(1))
        lbsize  == zbc_sg_cmd_get_int32(reply, 8)
        lpp     == LogicalPerPhysical(reply[13], ub)
    IN  IF IsZero(lbsize) THEN [ret |-> -EINVAL, fault |-> FALSE,
                                zbd_logical_blocks |-> lblocks,
                                zbd_logical_block_size |-> lbsize]
        ELSE IF IsZero(lblocks) THEN [ret |-> -EINVAL, fault |-> FALSE,
                                      zbd_logical_blocks |-> lblocks,
                                      zbd_logical_block_size |-> lbsize]
        ELSE [ret |-> 0,
              \* line 178 divides by zero when lpp = 0: the process is killed
              \* by a trap (x86), or the quotient is 0 (a build without trap)
              fault |-> (lpp = 0 /\ ub = "x86"),
              zbd_logical_blocks       |-> lblocks,
              zbd_logical_block_size   |-> lbsize,
              zbd_physical_block_size  |-> MulSmall(lbsize, lpp),
              zbd_physical_blocks      |-> IF lpp = 0 THEN U64(0)
                                           ELSE DivSmall(lblocks, lpp)]

NoInfo == [zbd_type |-> "none", zbd_model |-> "none"]

zbc_scsi_get_info(env) ==
    LET inq == zbc_scsi_inquiry(env)
    IN
    IF inq.ret # 0
    THEN [ret |-> inq.ret, events |-> inq.events, info |-> NoInfo, fault |-> FALSE]
    ELSE IF IsATA(env.inq_reply)
    THEN [ret |-> -ENOSYS, events |-> inq.events \o << << "free", inq.pbuf.id, "caller" >> >>,
          info |-> NoInfo, fault |-> FALSE]
    ELSE LET ev1 == inq.events \o
                    (IF inq.pbuf.id # "NULL" THEN << << "free", inq.pbuf.id, "caller" >> >> ELSE << >>)
             cls == Classify(inq.dev_type)
         IN
         IF cls # 0
         THEN [ret |-> cls, events |-> ev1, info |-> NoInfo, fault |-> FALSE]
         ELSE IF env.rc_init # 0
         THEN [ret |-> env.rc_init,
               events |-> ev1 \o << << "init_failed", "READ_CAPACITY" >> >>,
               info |-> NoInfo, fault |-> FALSE]
         ELSE LET cmd0 == zbc_sg_cmd_init("READ_CAPACITY", NullBuf,
                                          U64(ZBC_SG_READ_CAPACITY_REPLY_LEN))
                  cdb1 == [cmd0.cdb EXCEPT ![0] = ZBC_SG_READ_CAPACITY_CDB_OPCODE,
                                           ![1] = ZBC_SG_READ_CAPACITY_CDB_SA]
                  cmd1 == [cmd0 EXCEPT !.cdb = zbc_sg_cmd_set_int32(cdb1, 10,
                                                   U32(ZBC_SG_READ_CAPACITY_REPLY_LEN))]
                  ev2  == ev1 \o << << "init", "READ_CAPACITY" >>, ExecEvent(cmd1) >>
                  geo  == Geometry(env.rc_reply, env.ub)
              IN
              IF env.rc_exec # 0
              THEN [ret |-> env.rc_exec, events |-> ev2 \o zbc_sg_cmd_destroy(cmd1),
                    info |-> NoInfo, fault |-> FALSE]
              ELSE IF geo.fault
              THEN [ret |-> 0, events |-> ev2, info |-> NoInfo, fault |-> TRUE]
              ELSE [ret |-> geo.ret, events |-> ev2 \o zbc_sg_cmd_destroy(cmd1),
                    info |-> [f \in (DOMAIN geo \ {"ret", "fault"}) \cup
                                    {"zbd_type", "zbd_model"} |->
                                 IF f = "zbd_type" THEN "ZBC_DT_SCSI"
                                 ELSE IF f = "zbd_model" THEN "ZBC_DM_HOST_MANAGED"
                                 ELSE geo[f]],
                    fault |-> FALSE]


(***************************************************************************)
(* zbc_scsi_open                                                           *)
(***************************************************************************)
NoDev == [valid |-> FALSE]

\* OpenCleanup leaving through out_free_dev without falling into out
OpenCleanupNoFallThrough(allocated) ==
    IF allocated THEN << << "free_dev" >> >> ELSE << << "close" >> >>

\* lines 241-245: the exit labels out_free_dev and out
OpenCleanup(allocated) ==
    (IF allocated THEN << << "free_dev" >> >> ELSE << >>) \o << << "close" >> >>

zbc_scsi_open(env) ==
    LET flags == env.flags \cup {"O_DIRECT"}
        fail(ret, ev, allocated) ==
            [ret |-> ret, events |-> ev \o OpenCleanup(allocated),
             pdev_written |-> FALSE, dev |-> NoDev, fault |-> FALSE]
    IN
    IF env.open_err # 0
    THEN [ret |-> - env.open_err, events |-> << << "open_failed" >> >>,
          pdev_written |-> FALSE, dev |-> NoDev, fault |-> FALSE]
    ELSE IF env.fstat_err # 0
    THEN fail(- env.fstat_err, << << "open", flags >>, << "fstat" >> >>, FALSE)
    ELSE IF ~ env.is_chr
    THEN fail(-ENXIO, << << "open", flags >>, << "fstat" >> >>, FALSE)
    ELSE IF ~ env.alloc_ok
    THEN fail(-ENOMEM, << << "open", flags >>, << "fstat" >>, << "alloc_failed" >> >>, FALSE)
    ELSE LET ev0  == << << "open", flags >>, << "fstat" >>, << "alloc_dev" >> >>
             info == zbc_scsi_get_info(env)
         IN  IF info.fault
             THEN [ret |-> 0, events |-> ev0 \o info.events,
                   pdev_written |-> FALSE, dev |-> NoDev, fault |-> TRUE]
             ELSE IF info.ret # 0
             THEN fail(info.ret, ev0 \o info.events, TRUE)
             ELSE [ret |-> 0, events |-> ev0 \o info.events,
                   pdev_written |-> TRUE,
                   dev |-> [valid |-> TRUE, zbd_fd |-> "fd", zbd_flags |-> flags,
                            zbd_info |-> info.info],
                   fault |-> FALSE]

(***************************************************************************)
(* zbc_scsi_pread, zbc_scsi_pwrite                                         *)
(***************************************************************************)
CallerBuf == [id |-> "caller", owned |-> FALSE]

\* lines 259 and 298: (size_t) lba_count * logical block size
TransferSize(dev, lba_count) ==
    Mul(Ext(lba_count, 8), Ext(dev.zbd_info.zbd_logical_block_size, 8))

\* lines 279 and 319: ret = (sz - cmd.io_hdr.resid) / logical block size, the
\* size_t quotient stored in an int
TransferredBlocks(dev, sz, resid) ==
    ToInt32(Ext(Div(Sub(sz, resid), Ext(dev.zbd_info.zbd_logical_block_size, 8)), 4))

\* RwCdb with the address field holding the zone start alone
RwCdbNoOffset(cdb, opcode, zone, lba_count, lba_ofst) ==
    LET c1 == [cdb EXCEPT ![0] = opcode, ![1] = 16]
        c2 == zbc_sg_cmd_set_int64(c1, 2, zone.zbz_start)
    IN  zbc_sg_cmd_set_int32(c2, 10, lba_count)

\* lines 271-274 and 310-314: the CDB of READ 16 / WRITE 16
RwCdb(cdb, opcode, zone, lba_count, lba_ofst) ==
    LET c1 == [cdb EXCEPT ![0] = opcode, ![1] = 16]
        c2 == zbc_sg_cmd_set_int64(c1, 2, Add(zone.zbz_start, lba_ofst))
    IN  zbc_sg_cmd_set_int32(c2, 10, lba_count)

zbc_scsi_pread(dev, zone, lba_count, lba_ofst, env) ==
    LET sz == TransferSize(dev, lba_count)
    IN  IF env.init # 0
        THEN [ret |-> env.init, events |-> << << "init_failed", "READ" >> >>]
        ELSE LET cmd0 == zbc_sg_cmd_init("READ", CallerBuf, sz)
                 cmd1 == [cmd0 EXCEPT !.cdb = RwCdb(@, ZBC_SG_READ_CDB_OPCODE,
                                                    zone, lba_count, lba_ofst)]
             IN  [ret    |-> IF env.exec = 0
                             THEN TransferredBlocks(dev, sz, env.resid)
                             ELSE env.exec,
                  events |-> << << "init", "READ" >>, ExecEvent(cmd1) >>
                             \o zbc_sg_cmd_destroy(cmd1)]

zbc_scsi_pwrite(dev, zone, lba_count, lba_ofst, env) ==
    LET sz == TransferSize(dev, lba_count)
    IN  IF env.init # 0
        THEN [ret |-> env.init, events |-> << << "init_failed", "WRITE" >> >>]
        ELSE LET cmd0 == zbc_sg_cmd_init("WRITE", CallerBuf, sz)
                 cmd1 == [cmd0 EXCEPT !.dxfer_direction = "SG_DXFER_TO_DEV",
                                      !.cdb = RwCdb(@, ZBC_SG_WRITE_CDB_OPCODE,
                                                    zone, lba_count, lba_ofst)]
             IN  [ret    |-> IF env.exec = 0
                             THEN TransferredBlocks(dev, sz, env.resid)
                             ELSE env.exec,
                  events |-> << << "init", "WRITE" >>, ExecEvent(cmd1) >>
                             \o zbc_sg_cmd_destroy(cmd1)]

(***************************************************************************)
(* zbc_scsi_flush                                                          *)
(***************************************************************************)
zbc_scsi_flush(lba_ofst, lba_count, immediate, env) ==
    IF env.init # 0
    THEN [ret |-> env.init, events |-> << << "init_failed", "SYNC_CACHE" >> >>]
    ELSE LET cmd0 == zbc_sg_cmd_init("SYNC_CACHE", NullBuf, U64(0))
             c1   == [cmd0.cdb EXCEPT ![0] = ZBC_SG_SYNC_CACHE_CDB_OPCODE]
             c2   == IF ~ IsZero(lba_ofst) THEN zbc_sg_cmd_set_int64(c1, 2, lba_ofst) ELSE c1
             c3   == IF ~ IsZero(lba_count) THEN zbc_sg_cmd_set_int32(c2, 10, lba_count) ELSE c2
             c4   == IF immediate # 0 THEN [c3 EXCEPT ![1] = 2] ELSE c3
             cmd1 == [cmd0 EXCEPT !.cdb = c4]
         IN  [ret    |-> env.exec,
              events |-> << << "init", "SYNC_CACHE" >>, ExecEvent(cmd1) >>
                         \o zbc_sg_cmd_destroy(cmd1)]

(***************************************************************************)
(* zbc_scsi_report_zones                                                   *)
(***************************************************************************)
\* lines 378-394: the output buffer size and the requested count after the
\* page-size limit.  *nr_zones * ZBC_ZONE_DESCRIPTOR_LENGTH is an unsigned int
\* product (modulo 2^32) that is then added to the size_t out_bufsz.
ReportBufSize(nr_zones) ==
    IF IsZero(nr_zones)
    THEN [out_bufsz |-> U64(ZBC_ZONE_DESCRIPTOR_OFFSET), nr_zones |-> nr_zones]
    ELSE LET sz == Add(U64(ZBC_ZONE_DESCRIPTOR_OFFSET),
                       Ext(MulSmall(nr_zones, ZBC_ZONE_DESCRIPTOR_LENGTH), 8))
         IN  IF Less(U64(PageSize), sz)
             THEN [out_bufsz |-> U64(PageSize),
                   nr_zones  |-> Ext(DivSmall(Sub(U64(PageSize),
                                                  U64(ZBC_ZONE_DESCRIPTOR_OFFSET)),
                                              ZBC_ZONE_DESCRIPTOR_LENGTH), 4)]
             ELSE [out_bufsz |-> sz, nr_zones |-> nr_zones]

\* line 471: nz = zbc_sg_cmd_get_int32(buf) / ZBC_ZONE_DESCRIPTOR_LENGTH
DeviceZones(reply) ==
    ToInt32(DivSmall(zbc_sg_cmd_get_int32(reply, 0), ZBC_ZONE_DESCRIPTOR_LENGTH))

\* ReportedZones without the header taken off the buffer size
ReportedZonesNoHeader(out_bufsz) ==
    ToInt32(Ext(DivSmall(out_bufsz, ZBC_ZONE_DESCRIPTOR_LENGTH), 4))

\* line 472: reported_zones = (out_bufsz - OFFSET) / LENGTH
ReportedZones(out_bufsz) ==
    ToInt32(Ext(DivSmall(Sub(out_bufsz, U64(ZBC_ZONE_DESCRIPTOR_OFFSET)),
                         ZBC_ZONE_DESCRIPTOR_LENGTH), 4))

\* ClampZones without the limit to the descriptors that fit the buffer
ClampZonesNoFit(nz, nr_zones, reported_zones) ==
    IF Less(nr_zones, OfInt32(nz)) THEN ToInt32(nr_zones) ELSE nz

\* lines 477-482: nz > *nr_zones compares as unsigned int, nz > reported_zones
\* as int
ClampZones(nz, nr_zones, reported_zones) ==
    LET nz1 == IF Less(nr_zones, OfInt32(nz)) THEN ToInt32(nr_zones) ELSE nz
    IN  IF nz1 > reported_zones THEN reported_zones ELSE nz1

\* lines 514-526: the indexes i of zones[i] written by the loop, in order;
\* descriptor i is read at bytes OFFSET + i * LENGTH of the reply
\* DecodeZones with the loop test i <= nz
RECURSIVE DecodeZonesInclusive(_, _)
DecodeZonesInclusive(i, nz) ==
    IF i <= nz THEN << i >> \o DecodeZonesInclusive(i + 1, nz) ELSE << >>

RECURSIVE DecodeZones(_, _)
DecodeZones(i, nz) ==
    IF i < nz THEN << i >> \o DecodeZones(i + 1, nz) ELSE << >>

zbc_scsi_report_zones(start_lba, ro, zones, nr_zones, env) ==
    LET lim       == ReportBufSize(nr_zones)
        out_bufsz == lim.out_bufsz
    IN
    IF env.init # 0
    THEN [ret |-> env.init, events |-> << << "init_failed", "REPORT_ZONES" >> >>,
          out |-> [nr_zones |-> lim.nr_zones, zones_written |-> << >>,
                   out_bufsz |-> out_bufsz]]
    ELSE LET cmd0 == zbc_sg_cmd_init("REPORT_ZONES", NullBuf, out_bufsz)
             c1   == [cmd0.cdb EXCEPT ![0] = ZBC_SG_REPORT_ZONES_CDB_OPCODE,
                                      ![1] = ZBC_SG_REPORT_ZONES_CDB_SA]
             c2   == zbc_sg_cmd_set_int64(c1, 2, start_lba)
             c3   == zbc_sg_cmd_set_int32(c2, 10, out_bufsz)
             cmd1 == [cmd0 EXCEPT !.cdb = [c3 EXCEPT ![14] = ro % 16]]
             ev   == << << "init", "REPORT_ZONES" >>, ExecEvent(cmd1) >>
                     \o zbc_sg_cmd_destroy(cmd1)
             nz0  == DeviceZones(env.reply)
             reported_zones == ReportedZones(out_bufsz)
             decode == zones /\ reported_zones # 0
             nz   == IF decode THEN ClampZones(nz0, lim.nr_zones, reported_zones) ELSE nz0
         IN  IF env.exec # 0
             THEN [ret |-> env.exec, events |-> ev,
                   out |-> [nr_zones |-> lim.nr_zones, zones_written |-> << >>,
                            out_bufsz |-> out_bufsz]]
             ELSE [ret |-> 0, events |-> ev,
                   out |-> [nr_zones |-> OfInt32(nz),
                            zones_written |-> IF decode THEN DecodeZones(0, nz) ELSE << >>,
                            out_bufsz |-> out_bufsz]]

(***************************************************************************)
(* zbc_scsi_reset_write_pointer, zbc_scsi_set_zones,                       *)
(* zbc_scsi_set_write_pointer                                              *)
(***************************************************************************)
\* (uint64_t)-1
AllOnes64 == [i \in 1..8 |-> 255]

\* ResetWpCdb without the else: the LBA field is always written
ResetWpCdbNoElse(cdb, start_lba) ==
    LET c1 == [cdb EXCEPT ![0] = ZBC_SG_RESET_WRITE_POINTER_CDB_OPCODE,
                          ![1] = ZBC_SG_RESET_WRITE_POINTER_CDB_SA]
        c2 == IF start_lba = AllOnes64 THEN [c1 EXCEPT ![14] = 1] ELSE c1
    IN  zbc_sg_cmd_set_int64(c2, 2, start_lba)

\* lines 581-589
ResetWpCdb(cdb, start_lba) ==
    LET c1 == [cdb EXCEPT ![0] = ZBC_SG_RESET_WRITE_POINTER_CDB_OPCODE,
                          ![1] = ZBC_SG_RESET_WRITE_POINTER_CDB_SA]
    IN  IF start_lba = AllOnes64
        THEN [c1 EXCEPT ![14] = 1]
        ELSE zbc_sg_cmd_set_int64(c1, 2, start_lba)

zbc_scsi_reset_write_pointer(start_lba, env) ==
    IF env.init # 0
    THEN [ret |-> env.init, events |-> << << "init_failed", "RESET_WRITE_POINTER" >> >>]
    ELSE LET cmd0 == zbc_sg_cmd_init("RESET_WRITE_POINTER", NullBuf, U64(0))
             cmd1 == [cmd0 EXCEPT !.cdb = ResetWpCdb(@, start_lba)]
         IN  [ret    |-> env.exec,
              events |-> << << "init", "RESET_WRITE_POINTER" >>, ExecEvent(cmd1) >>
                         \o zbc_sg_cmd_destroy(cmd1)]

\* lines 637-640 and 688-691: two 7-byte fields at offsets 2 and 9
TwoFieldCdb(cdb, opcode, sa, a, b) ==
    LET c1 == [cdb EXCEPT ![0] = opcode, ![1] = sa]
    IN  SetCdb(SetCdb(c1, 2, a, 7), 9, b, 7)

zbc_scsi_set_zones(conv_sz, seq_sz, env) ==
    IF env.init # 0
    THEN [ret |-> env.init, events |-> << << "init_failed", "SET_ZONES" >> >>]
    ELSE LET cmd0 == zbc_sg_cmd_init("SET_ZONES", NullBuf, U64(0))
             cmd1 == [cmd0 EXCEPT !.cdb = TwoFieldCdb(@, ZBC_SG_SET_ZONES_CDB_OPCODE,
                                              ZBC_SG_SET_ZONES_CDB_SA, conv_sz, seq_sz)]
         IN  [ret    |-> env.exec,
              events |-> << << "init", "SET_ZONES" >>, ExecEvent(cmd1) >>
                         \o zbc_sg_cmd_destroy(cmd1)]

zbc_scsi_set_write_pointer(start_lba, write_pointer, env) ==
    IF env.init # 0
    THEN [ret |-> env.init, events |-> << << "init_failed", "SET_WRITE_POINTER" >> >>]
    ELSE LET cmd0 == zbc_sg_cmd_init("SET_WRITE_POINTER", NullBuf, U64(0))
             cmd1 == [cmd0 EXCEPT !.cdb = TwoFieldCdb(@, ZBC_SG_SET_WRITE_POINTER_CDB_OPCODE,
                                              ZBC_SG_SET_WRITE_POINTER_CDB_SA,
                                              start_lba, write_pointer)]
         IN  [ret    |-> env.exec,
              events |-> << << "init", "SET_WRITE_POINTER" >>, ExecEvent(cmd1) >>
                         \o zbc_sg_cmd_destroy(cmd1)]

(***************************************************************************)
(* The environment of zbc_scsi_open: the outcome of each OS and transport  *)
(* call and the bytes of the two replies.                                  *)
(***************************************************************************)
\* byte 13 of the READ CAPACITY reply takes every exponent up to this one
MaxExponent == 4

InqReply(byte0, vendor) ==
    [i \in 0..(ZBC_SG_INQUIRY_REPLY_LEN - 1) |->
        IF i = 0 THEN byte0 ELSE IF i \in 8..10 THEN vendor[i - 7] ELSE 32]

RcReply(lba, bsz, b13) ==
    [i \in 0..(ZBC_SG_READ_CAPACITY_REPLY_LEN - 1) |->
        IF i < 8 THEN lba[i + 1] ELSE IF i < 12 THEN bsz[i - 7]
        ELSE IF i = 13 THEN b13 ELSE 0]

\* byte 0 of the INQUIRY reply: peripheral qualifier (3 bits) and device type
InqByte0s == { ZBC_DEV_TYPE_HOST_MANAGED, ZBC_DEV_TYPE_HOST_AWARE,
               32 + ZBC_DEV_TYPE_HOST_MANAGED, 5, 31 }
InqVendors == { ATA, << 72, 71, 83 >>, << 65, 84, 0 >> }

\* wire bytes of the last LBA: 3FFh, 2^64-1, 2^64-2
LastLbas == { << 0, 0, 0, 0, 0, 0, 3, 255 >>,
              << 255, 255, 255, 255, 255, 255, 255, 255 >>,
              << 255, 255, 255, 255, 255, 255, 255, 254 >> }
\* wire bytes of the block size: 512, 0, 2^31
BlockSizes == { << 0, 0, 2, 0 >>, << 0, 0, 0, 0 >>, << 128, 0, 0, 0 >> }
\* byte 13: the exponent alone, the exponent with the high nibble
\* (P_I_EXPONENT) set, and the largest exponent
Byte13s == (0..MaxExponent) \cup {15, 16 + 3, 32, 32 + 3}

DefaultInq == InqReply(ZBC_DEV_TYPE_HOST_MANAGED, << 72, 71, 83 >>)
DefaultRc  == RcReply(<< 0, 0, 0, 0, 0, 0, 3, 255 >>, << 0, 0, 2, 0 >>, 0)

OpenEnv(flags, n, inq, rc, ub) ==
    [flags     |-> flags,
     open_err  |-> IF n = 1 THEN ENOENT ELSE 0,
     fstat_err |-> IF n = 2 THEN EIO ELSE 0,
     is_chr    |-> n # 3,
     alloc_ok  |-> n # 4,
     inq_init  |-> IF n = 5 THEN -ENOMEM ELSE 0,
     inq_exec  |-> IF n = 6 THEN -EIO ELSE 0,
     inq_reply |-> inq,
     rc_init   |-> IF n = 7 THEN -ENOMEM ELSE 0,
     rc_exec   |-> IF n = 8 THEN -EIO ELSE 0,
     rc_reply  |-> rc,
     ub        |-> ub]

OpenFlags == { {"O_RDWR"} }
Builds == { "x86", "other" }

\* the n-th call is the one that fails (n = 9: none does); replies that are
\* never received are left at a default
OpenEnvs ==
    { OpenEnv(f, n, DefaultInq, DefaultRc, "x86") : f \in OpenFlags, n \in 1..6 }
    \cup { OpenEnv(f, n, InqReply(t[1], t[2]), DefaultRc, "x86") :
             f \in OpenFlags, n \in 7..8, t \in InqByte0s \X InqVendors }
    \cup { OpenEnv(f, 9, InqReply(t[1], t[2]), RcReply(r[1], r[2], r[3]), ub) :
             f \in OpenFlags, t \in InqByte0s \X InqVendors,
             r \in LastLbas \X BlockSizes \X Byte13s, ub \in Builds }

(***************************************************************************)
(* The environment of the other operations: their arguments, the outcome   *)
(* of zbc_sg_cmd_init and zbc_sg_cmd_exec, the residual and the reply.     *)
(***************************************************************************)
MaxCount    == 2     \* block counts 0..MaxCount, besides the large ones
MaxReq      == 2     \* requested zone counts 0..MaxReq, besides the large ones
MaxDevZones == 2     \* zone lists of 0..MaxDevZones descriptors, besides others

AllOnes32 == [i \in 1..4 |-> 255]

\* the transport fails in init, fails in exec, or succeeds
CmdOutcomes == { [init |-> -ENOMEM, exec |-> 0], [init |-> 0, exec |-> -EIO],
                 [init |-> 0, exec |-> 0] }

Zones      == { [zbz_start |-> U64(0)], [zbz_start |-> U64(524288)] }
LbaOffsets == { U64(0), U64(8) }
\* 0..MaxCount, 2^31-1, 2^31, 2^32-1
LbaCounts  == { U32(n) : n \in 0..MaxCount } \cup
              { << 255, 255, 255, 127 >>, << 0, 0, 0, 128 >>, AllOnes32 }

\* residuals the transport can report for a transfer of sz bytes: an int
\* between 0 and sz
Residuals(sz, lbsize) ==
    { r \in { U64(0), U64(1), Ext(lbsize, 8), sz, Sub(sz, U64(1)) } :
        FitsInt(r) /\ Leq(r, sz) }

IoEnvs(sz, lbsize) ==
    { [init |-> -ENOMEM, exec |-> 0, resid |-> U64(0)],
      [init |-> 0, exec |-> -EIO, resid |-> U64(0)] } \cup
    { [init |-> 0, exec |-> 0, resid |-> r] : r \in Residuals(sz, lbsize) }

\* requested counts: 0..MaxReq, 63, 64, 100, 2^26, 2^26+1, 2^31+1, 2^32-1
ReqCounts  == { U32(n) : n \in 0..MaxReq } \cup
              { U32(63), U32(64), U32(100), U32(67108864), U32(67108865),
                << 1, 0, 0, 128 >>, AllOnes32 }

\* the REPORT ZONES reply: a zone list length (4 wire bytes) at offset 0
ReportReply(len) == [i \in 0..3 |-> len[i + 1]]

\* zone list lengths: 64 * (0..MaxDevZones), 100, 4032, 4096, 6400, 2^31, 2^32-1
ListLengths == { zbc_sg_cmd_set_bytes(U32(64 * n), 4) : n \in 0..MaxDevZones } \cup
               { << 0, 0, 0, 100 >>, << 0, 0, 15, 192 >>, << 0, 0, 16, 0 >>,
                 << 0, 0, 25, 0 >>, << 128, 0, 0, 0 >>, << 255, 255, 255, 255 >> }

ReportEnvs ==
    { [init |-> -ENOMEM, exec |-> 0, reply |-> ReportReply(<< 0, 0, 0, 0 >>)],
      [init |-> 0, exec |-> -EIO, reply |-> ReportReply(<< 0, 0, 0, 0 >>)] } \cup
    { [init |-> 0, exec |-> 0, reply |-> ReportReply(l)] : l \in ListLengths }

\* start LBA and reporting options of a report
ReportSelectors == { << U64(0), 0 >>, << U64(524288), 5 >>, << U64(524288), 16 + 5 >> }

\* all ones (the sentinel), 0, 524288, 0102030405060708h, 2^64-2
ResetLbas == { AllOnes64, U64(0), U64(524288), << 8, 7, 6, 5, 4, 3, 2, 1 >>,
               << 254, 255, 255, 255, 255, 255, 255, 255 >> }

FlushRanges == { << U64(0), U32(0) >>, << U64(524288), U32(8) >>,
                 << U64(0), U32(8) >> }

SizePairs == { << U64(0), U64(524288) >>, << U64(524288), << 8, 7, 6, 5, 4, 3, 2, 1 >> >> }

(***************************************************************************)
(* State                                                                   *)
(***************************************************************************)
VARIABLES
    pc,        \* "idle", "returned" (a call has returned) or "crashed"
    pdev,      \* the caller's device pointer (*pdev of zbc_scsi_open)
    fd_open,   \* whether the device file descriptor is open
    op,        \* the operation that returned last
    args,      \* its inputs
    ret,       \* its return value
    events,    \* the OS and transport calls it made, in order
    out        \* its other outputs

vars == << pc, pdev, fd_open, op, args, ret, events, out >>

NoArgs == [none |-> TRUE]

Init ==
    /\ pc = "idle"
    /\ pdev = NoDev
    /\ fd_open = FALSE
    /\ op = "none"
    /\ args = NoArgs
    /\ ret = 0
    /\ events = << >>
    /\ out = NoArgs

Count(ev, kind) == Len(SelectSeq(ev, LAMBDA e : e[1] = kind))
CountOf(ev, kind, what) == Len(SelectSeq(ev, LAMBDA e : e[1] = kind /\ e[2] = what))

ScsiOpen ==
    /\ pc = "idle"
    /\ ~ pdev.valid
    /\ \E env \in OpenEnvs :
         LET r == zbc_scsi_open(env)
         IN  /\ pc' = IF r.fault THEN "crashed" ELSE "returned"
             /\ pdev' = IF r.pdev_written THEN r.dev ELSE pdev
             /\ fd_open' = (Count(r.events, "open") > Count(r.events, "close"))
             /\ op' = "open"
             /\ args' = env
             /\ ret' = r.ret
             /\ events' = r.events
             /\ out' = [pdev_written |-> r.pdev_written]

\* the state left by an operation on the open device that returned r
Returned(name, a, r, o) ==
    /\ pc' = "returned"
    /\ op' = name
    /\ args' = a
    /\ ret' = r.ret
    /\ events' = r.events
    /\ out' = o
    /\ UNCHANGED << pdev, fd_open >>

ScsiPread ==
    /\ pc = "idle"
    /\ pdev.valid
    /\ \E zone \in Zones, lba_count \in LbaCounts, lba_ofst \in LbaOffsets :
         \E env \in IoEnvs(TransferSize(pdev, lba_count),
                           pdev.zbd_info.zbd_logical_block_size) :
            Returned("pread",
                     [zone |-> zone, lba_count |-> lba_count, lba_ofst |-> lba_ofst,
                      env |-> env],
                     zbc_scsi_pread(pdev, zone, lba_count, lba_ofst, env), NoArgs)

ScsiPwrite ==
    /\ pc = "idle"
    /\ pdev.valid
    /\ \E zone \in Zones, lba_count \in LbaCounts, lba_ofst \in LbaOffsets :
         \E env \in IoEnvs(TransferSize(pdev, lba_count),
                           pdev.zbd_info.zbd_logical_block_size) :
            Returned("pwrite",
                     [zone |-> zone, lba_count |-> lba_count, lba_ofst |-> lba_ofst,
                      env |-> env],
                     zbc_scsi_pwrite(pdev, zone, lba_count, lba_ofst, env), NoArgs)

ScsiFlush ==
    /\ pc = "idle"
    /\ pdev.valid
    /\ \E range \in FlushRanges, immediate \in {0, 1}, env \in CmdOutcomes :
         Returned("flush",
                  [lba_ofst |-> range[1], lba_count |-> range[2],
                   immediate |-> immediate, env |-> env],
                  zbc_scsi_flush(range[1], range[2], immediate, env), NoArgs)

ScsiReportZones ==
    /\ pc = "idle"
    /\ pdev.valid
    /\ \E sel \in ReportSelectors, zones \in BOOLEAN, nr_zones \in ReqCounts,
          env \in ReportEnvs :
         LET r == zbc_scsi_report_zones(sel[1], sel[2], zones, nr_zones, env)
         IN  Returned("report_zones",
                      [start_lba |-> sel[1], ro |-> sel[2], zones |-> zones,
                       nr_zones |-> nr_zones, env |-> env],
                      r, r.out)

ScsiResetWritePointer ==
    /\ pc = "idle"
    /\ pdev.valid
    /\ \E start_lba \in ResetLbas, env \in CmdOutcomes :
         Returned("reset_wp", [start_lba |-> start_lba, env |-> env],
                  zbc_scsi_reset_write_pointer(start_lba, env), NoArgs)

ScsiSetZones ==
    /\ pc = "idle"
    /\ pdev.valid
    /\ \E sizes \in SizePairs, env \in CmdOutcomes :
         Returned("set_zones",
                  [conv_sz |-> sizes[1], seq_sz |-> sizes[2], env |-> env],
                  zbc_scsi_set_zones(sizes[1], sizes[2], env), NoArgs)

ScsiSetWritePointer ==
    /\ pc = "idle"
    /\ pdev.valid
    /\ \E lbas \in SizePairs, env \in CmdOutcomes :
         Returned("set_wp",
                  [start_lba |-> lbas[1], write_pointer |-> lbas[2], env |-> env],
                  zbc_scsi_set_write_pointer(lbas[1], lbas[2], env), NoArgs)

\* the caller takes the result; the next call starts from here
Return ==
    /\ pc = "returned"
    /\ pc' = "idle"
    /\ op' = "none"
    /\ args' = NoArgs
    /\ ret' = 0
    /\ events' = << >>
    /\ out' = NoArgs
    /\ UNCHANGED << pdev, fd_open >>

Next ==
    \/ ScsiOpen
    \/ ScsiPread
    \/ ScsiPwrite
    \/ ScsiFlush
    \/ ScsiReportZones
    \/ ScsiResetWritePointer
    \/ ScsiSetZones
    \/ ScsiSetWritePointer
    \/ Return

Spec == Init /\ [][Next]_vars

(***************************************************************************)
(* Properties.  Expected values are written from the wire format and the   *)
(* C arithmetic the statements name, not from the handlers above.          *)
(***************************************************************************)
\* the number that the n big-endian bytes at offset ofst of buf denote
WireValue(buf, ofst, n) == [i \in 1..n |-> buf[ofst + (n - i)]]

\* the command handed to zbc_sg_cmd_exec for the given command code
Issued(code) == CountOf(events, "exec", code) = 1
IssuedCmd(code) == SelectSeq(events, LAMBDA e : e[1] = "exec" /\ e[2] = code)[1]
IssuedCdb(code) == IssuedCmd(code)[3]
IssuedBufSize(code) == IssuedCmd(code)[4]

\* position of the first event of a kind for a command code (0 when absent)
RECURSIVE IndexFrom(_, _, _)
IndexFrom(kind, code, i) ==
    IF i > Len(events) THEN 0
    ELSE IF events[i][1] = kind /\ events[i][2] = code THEN i
    ELSE IndexFrom(kind, code, i + 1)
IndexOf(kind, code) == IndexFrom(kind, code, 1)

(***************************************************************************)
(* Zone report: counts                                                     *)
(***************************************************************************)
ReportOk == op = "report_zones" /\ pc = "returned" /\ ret = 0

\* R: the requested count on entry
ReqR == args.nr_zones
\* D: the device-reported count, zone list length / 64
DevD == DivSmall(WireValue(args.env.reply, 0, 4), 64)
\* the page-fit count floor((pageSize - 64) / 64)
PageFit == (PageSize - 64) \div 64
\* F: the descriptors that fit the buffer that was allocated
BufFit == FromDigits(DivSmall(Sub(IssuedBufSize("REPORT_ZONES"), U64(64)), 64))

C3_ResetAllFlag ==
    (op = "reset_wp" /\ Issued("RESET_WRITE_POINTER")) =>
        LET cdb == IssuedCdb("RESET_WRITE_POINTER")
            lba == args.start_lba
            sentinel == \A i \in 1..8 : lba[i] = 255
        IN  /\ (cdb[14] % 2 = 1) <=> sentinel
            /\ sentinel => \A i \in 2..9 : cdb[i] = 0
            /\ ~ sentinel => /\ \A i \in 2..9 : cdb[i] = lba[10 - i]
                             /\ cdb[14] % 2 = 0

\* a reset of all zones was issued
C3_Witness ==
    /\ op = "reset_wp" /\ ret = 0 /\ Issued("RESET_WRITE_POINTER")
    /\ args.start_lba = AllOnes64
    /\ IssuedCdb("RESET_WRITE_POINTER")[14] = 1

(***************************************************************************)
(* Bring-up                                                                *)
(***************************************************************************)
\* the INQUIRY exchange succeeded
InquiryOk == op = "open" /\ Issued("INQUIRY") /\ args.inq_exec = 0
VendorATA == << args.inq_reply[8], args.inq_reply[9], args.inq_reply[10] >>
                 = << 65, 84, 65 >>
DeviceType == args.inq_reply[0] % 32
NoReadCapacity ==
    /\ CountOf(events, "init", "READ_CAPACITY") = 0
    /\ CountOf(events, "init_failed", "READ_CAPACITY") = 0
    /\ CountOf(events, "exec", "READ_CAPACITY") = 0

\* C4: when the INQUIRY reply has "ATA" in bytes 8..10, bring-up fails with
\* -ENOSYS whatever the device type in byte 0, READ CAPACITY is never issued
\* and the reply buffer is released.
C4_AtaRejected ==
    (InquiryOk /\ VendorATA) =>
        /\ pc = "returned"
        /\ ret = -ENOSYS
        /\ NoReadCapacity
        /\ CountOf(events, "free", "INQUIRY") = 1
        /\ ~ out.pdev_written /\ ~ pdev.valid

\* an ATA device that reports itself host-managed was rejected
C4_Witness ==
    /\ InquiryOk /\ VendorATA
    /\ DeviceType = ZBC_DEV_TYPE_HOST_MANAGED
    /\ ret = -ENOSYS

\* the READ CAPACITY exchange succeeded
CapacityOk == op = "open" /\ Issued("READ_CAPACITY") /\ args.rc_exec = 0
\* V + 1 modulo 2^64 and S of the reply
CapBlocks == Add(WireValue(args.rc_reply, 0, 8), U64(1))
CapBlockSize == WireValue(args.rc_reply, 8, 4)
CapValid == ~ IsZero(CapBlockSize) /\ ~ IsZero(CapBlocks)

\* C5 as stated: for every READ CAPACITY(16) reply, bring-up succeeds with
\* logical block count V + 1 and logical block size S exactly when S > 0 and
\* V + 1 (mod 2^64) is non-zero, and fails with -EINVAL otherwise.
C5_Capacity ==
    CapacityOk =>
        /\ pc = "returned"
        /\ CapValid => /\ ret = 0
                       /\ pdev.valid
                       /\ pdev.zbd_info.zbd_logical_blocks = CapBlocks
                       /\ pdev.zbd_info.zbd_logical_block_size = CapBlockSize
        /\ ~ CapValid => ret = -EINVAL /\ ~ pdev.valid

\* C10 as stated: after every successful bring-up, with e the 4-bit exponent
\* in byte 13 of the READ CAPACITY reply, physical block size = logical block
\* size * 2^e and physical block count = logical block count / 2^e; the
\* divisor is at least 1, so the division is always defined.
C10_PhysicalGeometry ==
    (CapacityOk /\ CapValid) =>
        LET e == args.rc_reply[13] % 16
        IN  /\ pc # "crashed"
            /\ (pc = "returned" /\ ret = 0) =>
                  /\ pdev.zbd_info.zbd_physical_block_size
                         = MulSmall(pdev.zbd_info.zbd_logical_block_size, 2 ^ e)
                  /\ pdev.zbd_info.zbd_physical_blocks
                         = DivSmall(pdev.zbd_info.zbd_logical_blocks, 2 ^ e)

\* C7: whenever zbc_scsi_open fails after the device file was opened, the
\* descriptor is closed exactly once, an allocated Device is freed exactly
\* once, *pdev is not written and the error is non-zero; only on full success
\* is *pdev set, with the descriptor still open and held by the Device.
C7_OpenCleanup ==
    (op = "open" /\ pc = "returned" /\ Count(events, "open") = 1) =>
        LET stepsOk == /\ args.fstat_err = 0 /\ args.is_chr /\ args.alloc_ok
                       /\ args.inq_init = 0 /\ args.inq_exec = 0
                       /\ ~ VendorATA /\ DeviceType = ZBC_DEV_TYPE_HOST_MANAGED
                       /\ args.rc_init = 0 /\ args.rc_exec = 0 /\ CapValid
        IN  /\ (ret = 0) <=> stepsOk
            /\ ret # 0 => /\ Count(events, "close") = 1
                          /\ Count(events, "free_dev") = Count(events, "alloc_dev")
                          /\ events[Len(events)] = << "close" >>
                          /\ ~ out.pdev_written
                          /\ ~ pdev.valid
                          /\ ~ fd_open
            /\ ret = 0 => /\ out.pdev_written
                          /\ pdev.valid
                          /\ pdev.zbd_fd = "fd"
                          /\ fd_open
                          /\ Count(events, "close") = 0
                          /\ Count(events, "free_dev") = 0
                          /\ Count(events, "alloc_dev") = 1

\* bring-up failed after the Device was allocated: it was freed and the
\* descriptor closed
C7_Witness ==
    /\ op = "open" /\ pc = "returned" /\ ret = -EINVAL
    /\ Count(events, "alloc_dev") = 1
    /\ Count(events, "free_dev") = 1
    /\ Count(events, "close") = 1
    /\ ~ pdev.valid

\* C8: bring-up is ordered and short-circuits: the character-device check
\* precedes INQUIRY, INQUIRY precedes classification, and READ CAPACITY is
\* reached only after INQUIRY succeeded with a vendor other than "ATA" and a
\* host-managed device type; a host-aware type fails with -ENOSYS and any
\* other type with -ENXIO, without READ CAPACITY and without completing the
\* open.
C8_BringUpOrder ==
    op = "open" =>
        /\ (CountOf(events, "init", "INQUIRY")
              + CountOf(events, "init_failed", "INQUIRY") > 0)
              => /\ args.fstat_err = 0 /\ args.is_chr
                 /\ Count(events, "fstat") = 1
                 /\ events[2] = << "fstat" >>
        /\ ~ NoReadCapacity
              => /\ InquiryOk
                 /\ ~ VendorATA
                 /\ DeviceType = ZBC_DEV_TYPE_HOST_MANAGED
                 /\ IndexOf("destroy", "INQUIRY") > IndexOf("exec", "INQUIRY")
                 /\ \A i \in 1..Len(events) :
                       (events[i][1] \in {"init", "init_failed", "exec"}
                          /\ events[i][2] = "READ_CAPACITY")
                       => i > IndexOf("destroy", "INQUIRY")
        /\ (InquiryOk /\ ~ VendorATA /\ DeviceType = ZBC_DEV_TYPE_HOST_AWARE)
              => /\ ret = -ENOSYS /\ pc = "returned"
                 /\ NoReadCapacity /\ ~ out.pdev_written /\ ~ pdev.valid
        /\ (InquiryOk /\ ~ VendorATA
              /\ DeviceType \notin {ZBC_DEV_TYPE_HOST_MANAGED, ZBC_DEV_TYPE_HOST_AWARE})
              => /\ ret = -ENXIO /\ pc = "returned"
                 /\ NoReadCapacity /\ ~ out.pdev_written /\ ~ pdev.valid

\* a host-aware device was turned away before READ CAPACITY
C8_Witness ==
    /\ InquiryOk /\ ~ VendorATA
    /\ DeviceType = ZBC_DEV_TYPE_HOST_AWARE
    /\ ret = -ENOSYS
    /\ NoReadCapacity

(***************************************************************************)
(* Read / write                                                            *)
(***************************************************************************)
RwOk == op \in {"pread", "pwrite"} /\ pc = "returned"
           /\ args.env.init = 0 /\ args.env.exec = 0

\* C6 as stated: a successful zbc_scsi_pread / zbc_scsi_pwrite of C blocks
\* of size L with residual R (0 <= R <= S = C * L) returns exactly
\* (S - R) / L as a non-negative block count: C when R = 0, 0 when R = S; a
\* short transfer is never an error.
C6_Residual ==
    RwOk =>
        LET L == Ext(pdev.zbd_info.zbd_logical_block_size, 8)
            S == Mul(Ext(args.lba_count, 8), L)
            R == args.env.resid
            q == Ext(OfInt32(ret), 8)
        IN  /\ ret >= 0
            /\ Leq(Mul(q, L), Sub(S, R))
            /\ Less(Sub(S, R), Add(Mul(q, L), L))
            /\ IsZero(R) => OfInt32(ret) = args.lba_count
            /\ R = S => ret = 0

(***************************************************************************)
(* Command and buffer lifetime                                             *)
(***************************************************************************)
CommandCodes == { "INQUIRY", "READ_CAPACITY", "READ", "WRITE", "SYNC_CACHE",
                  "REPORT_ZONES", "RESET_WRITE_POINTER", "SET_ZONES",
                  "SET_WRITE_POINTER" }

\* C9: on every exit path of every operation each command that was
\* initialised is destroyed exactly once, after it was initialised, and no
\* command whose initialisation failed is destroyed; the INQUIRY reply buffer
\* is released exactly once: by zbc_sg_cmd_destroy when execution failed, by
\* the caller when it succeeded and ownership was handed over.
C9_CommandLifetime ==
    pc = "returned" =>
        /\ \A c \in CommandCodes :
              /\ CountOf(events, "destroy", c) = CountOf(events, "init", c)
              /\ CountOf(events, "init", c) <= 1
              /\ CountOf(events, "init", c) = 1
                    => IndexOf("destroy", c) > IndexOf("init", c)
              /\ CountOf(events, "init_failed", c) > 0
                    => CountOf(events, "destroy", c) = 0
        /\ CountOf(events, "free", "INQUIRY") = CountOf(events, "init", "INQUIRY")
        /\ (op = "open" /\ CountOf(events, "init", "INQUIRY") = 1) =>
              LET byDestroy == Len(SelectSeq(events, LAMBDA e :
                                   e = << "free", "INQUIRY", "destroy" >>))
                  byCaller  == Len(SelectSeq(events, LAMBDA e :
                                   e = << "free", "INQUIRY", "caller" >>))
              IN  IF args.inq_exec # 0
                  THEN byDestroy = 1 /\ byCaller = 0
                  ELSE byDestroy = 0 /\ byCaller = 1

\* bring-up completed: both commands were destroyed and the caller released
\* the INQUIRY reply
C9_Witness ==
    /\ op = "open" /\ pc = "returned" /\ ret = 0
    /\ CountOf(events, "destroy", "INQUIRY") = 1
    /\ CountOf(events, "destroy", "READ_CAPACITY") = 1
    /\ Len(SelectSeq(events, LAMBDA e : e = << "free", "INQUIRY", "caller" >>)) = 1

(***************************************************************************)
(* Read / write command blocks                                             *)
(***************************************************************************)
RwIssued == op \in {"pread", "pwrite"} /\ pc = "returned" /\ args.env.init = 0

RwCode == IF op = "pread" THEN "READ" ELSE "WRITE"

\* C11: zbc_scsi_pread and zbc_scsi_pwrite issue one command whose CDB has
\* the opcode 88h (read) or 8Ah (write) in byte 0, 10h in byte 1, the zone
\* start LBA plus lba_ofst (64-bit sum) big-endian in bytes 2..9, lba_count
\* big-endian in bytes 10..13 and zero in bytes 14..15, so that the two CDBs
\* differ in the opcode only; the data buffer is lba_count * logical block
\* size bytes, a whole multiple of the logical block size; only the write
\* sets the direction host-to-device.
C11_RwCdb ==
    RwIssued =>
        LET cdb == IssuedCdb(RwCode)
            L   == Ext(pdev.zbd_info.zbd_logical_block_size, 8)
            sz  == IssuedBufSize(RwCode)
        IN  /\ Issued(RwCode)
            /\ cdb[0] = IF op = "pread" THEN 136 ELSE 138
            /\ cdb[1] = 16
            /\ WireValue(cdb, 2, 8) = Add(args.zone.zbz_start, args.lba_ofst)
            /\ WireValue(cdb, 10, 4) = args.lba_count
            /\ cdb[14] = 0 /\ cdb[15] = 0
            /\ sz = Mul(Ext(args.lba_count, 8), L)
            /\ \E q \in LbaCounts : Mul(Ext(q, 8), L) = sz
            /\ IssuedCmd(RwCode)[5] = IF op = "pwrite" THEN "SG_DXFER_TO_DEV"
                                                       ELSE "SG_DXFER_FROM_DEV"

\* a write of 2^32-1 blocks at offset 8 of the zone starting at 524288 was
\* issued
C11_Witness ==
    /\ RwIssued
    /\ op = "pwrite"
    /\ args.lba_count = AllOnes32
    /\ ~ IsZero(args.lba_ofst)
    /\ ~ IsZero(args.zone.zbz_start)
    /\ Issued("WRITE")

(***************************************************************************)
(* Reporting options                                                       *)
(***************************************************************************)
ReportReturned == op = "report_zones" /\ pc = "returned"

\* C12: zbc_scsi_report_zones called with a reporting-options code outside
\* 0..15 returns -EINVAL and issues no REPORT ZONES command (in particular
\* none carrying the code truncated to four bits).
C12_ReportingOptions ==
    (ReportReturned /\ args.ro \notin 0..15) =>
        /\ ret = -EINVAL
        /\ CountOf(events, "exec", "REPORT_ZONES") = 0

(***************************************************************************)
(* Allocation length                                                       *)
(***************************************************************************)
\* 64 + 64 * R as a 64-bit value: no wrap-around for a 32-bit R
WantedSize == Add(U64(64), MulSmall(Ext(ReqR, 8), 64))

\* C13: for every requested count R > 0, the allocation length in bytes
\* 10..13 of the REPORT ZONES CDB equals the buffer size and is
\* min(pageSize, 64 + 64 * R) with the product not wrapping; it never exceeds
\* a page; when 64 + 64 * R exceeds a page the requested count is reduced to
\* floor((pageSize - 64) / 64) before the command is issued (seen in
\* *nr_zones when the command then fails).
C13_AllocationLength ==
    (ReportReturned /\ args.env.init = 0 /\ ~ IsZero(ReqR)) =>
        LET alloc == Ext(WireValue(IssuedCdb("REPORT_ZONES"), 10, 4), 8)
        IN  /\ Issued("REPORT_ZONES")
            /\ alloc = IssuedBufSize("REPORT_ZONES")
            /\ alloc = MinU(U64(PageSize), WantedSize)
            /\ Leq(alloc, U64(PageSize))
            /\ (Less(U64(PageSize), WantedSize) /\ args.env.exec # 0)
                   => out.nr_zones = U32(PageFit)

(***************************************************************************)
(* Decoded descriptors and the response buffer                             *)
(***************************************************************************)
\* C14: after a successful zbc_scsi_report_zones, whatever zone list length
\* the device returned, every decoded descriptor index i is non-negative,
\* its 64 bytes end inside the allocated buffer (64 + 64 * (i + 1) <=
\* allocation length <= pageSize), and i is below the requested count R and
\* below the page-fit count floor((pageSize - 64) / 64).
C14_DecodeInBuffer ==
    ReportOk =>
        LET alloc == IssuedBufSize("REPORT_ZONES")
        IN  /\ Leq(alloc, U64(PageSize))
            /\ \A k \in 1..Len(out.zones_written) :
                 LET i == out.zones_written[k]
                 IN  /\ i >= 0
                     /\ 64 + 64 * (i + 1) <= FromDigits(alloc)
                     /\ Less(U32(i), ReqR)
                     /\ i < PageFit

\* a full page of descriptors was decoded from a reply whose zone list
\* length is FFFFFFFFh (negative as a signed 32-bit integer)
C14_Witness ==
    /\ ReportOk
    /\ args.env.reply = ReportReply(<< 255, 255, 255, 255 >>)
    /\ Len(out.zones_written) = PageFit

(***************************************************************************)
(* Failure of the REPORT ZONES command                                     *)
(***************************************************************************)
ReportFailed ==
    ReportReturned /\ (args.env.init # 0 \/ args.env.exec # 0)

\* C15: when zbc_sg_cmd_init or zbc_sg_cmd_exec fails in
\* zbc_scsi_report_zones, the call returns that error code, no element of
\* the zones array is written, and *nr_zones is the entry value R when
\* 64 + 64 * R fits in a page and floor((pageSize - 64) / 64) otherwise.
C15_ReportFailure ==
    ReportFailed =>
        /\ ret = IF args.env.init # 0 THEN args.env.init ELSE args.env.exec
        /\ out.zones_written = << >>
        /\ out.nr_zones = IF Leq(WantedSize, U64(PageSize)) THEN ReqR
                                                            ELSE U32(PageFit)

=============================================================================
